---- MODULE Spec2Model ----
(***************************************************************************)
(* Model of jamftf_runner.py: the name sanitizer, the shape prober, the    *)
(* identifier and name extractors, the tag classifier and the import       *)
(* compiler (compose_import_hcl).                                          *)
(*                                                                         *)
(* Text is a sequence of one-character strings.  A Python value is a       *)
(* record [t, v]: t names the Python type and v holds the payload.         *)
(***************************************************************************)
EXTENDS Integers, Sequences, FiniteSets, TLC

VARIABLES
    pc,          \* position of the running call
    arg,         \* argument of the pure function under check
    ret,         \* its result
    resources,   \* the resource groups handed to compose_import_hcl
    dump_path,   \* TRUE iff a sample sink path is given
    res_i,       \* index of the group the for loop is at
    tag,         \* compose_import_hcl: tag
    tf_type,     \* compose_import_hcl: tf_type
    items,       \* compose_import_hcl: items
    item_i,      \* index of the item the inner loop is at
    blocks,      \* compose_import_hcl: blocks
    dumper,      \* the sink: "none", "open" or "closed"
    dumped,      \* compose_import_hcl: dumped
    sink,        \* number of lines written to the sink
    out,         \* the text the call returned
    calls,       \* number of calls of compose_import_hcl started
    first_out    \* the text the first call returned

vars == <<pc, arg, ret, resources, dump_path, res_i, tag, tf_type, items,
          item_i, blocks, dumper, dumped, sink, out, calls, first_out>>

compile_vars == <<resources, dump_path, res_i, tag, tf_type, items, item_i,
                  blocks, dumper, dumped, sink, out, calls, first_out>>

(***************************************************************************)
(* Bounds of the inputs.                                                   *)
(***************************************************************************)
MaxLen == 4          \* longest string handed to sanitize_name
MaxFrags == 3        \* most fragments a raw tag is made of
MaxInt == 1          \* largest integer a record field holds
MaxAttrs == 2        \* most attributes of a probed wrapper object
MaxGroups == 2       \* most resource groups of one compile
SampleItems == 50    \* items over all groups of a sampling run

(***************************************************************************)
(* Characters and strings.                                                 *)
(***************************************************************************)
UPPER == <<"A", "B", "C", "D", "E", "F", "G", "H", "I", "J", "K", "L", "M",
           "N", "O", "P", "Q", "R", "S", "T", "U", "V", "W", "X", "Y", "Z">>
LOWER == <<"a", "b", "c", "d", "e", "f", "g", "h", "i", "j", "k", "l", "m",
           "n", "o", "p", "q", "r", "s", "t", "u", "v", "w", "x", "y", "z">>
DIGITS == <<"0", "1", "2", "3", "4", "5", "6", "7", "8", "9">>

Range(f) == {f[i] : i \in DOMAIN f}
LowerSet == Range(LOWER)
DigitSet == Range(DIGITS)
SpaceSet == {" ", "\t", "\n", "\r"}

\* str.lower() on one character
lower_char(c) ==
    IF \E i \in DOMAIN UPPER : UPPER[i] = c
    THEN LOWER[CHOOSE i \in DOMAIN UPPER : UPPER[i] = c]
    ELSE c

\* str.lower()
str_lower(s) == [i \in 1..Len(s) |-> lower_char(s[i])]

RECURSIVE lstrip(_, _)
lstrip(s, cs) ==
    IF s # <<>> /\ Head(s) \in cs THEN lstrip(Tail(s), cs) ELSE s

RECURSIVE rstrip(_, _)
rstrip(s, cs) ==
    IF s # <<>> /\ s[Len(s)] \in cs THEN rstrip(SubSeq(s, 1, Len(s) - 1), cs) ELSE s

\* str.strip() (cs = whitespace) and str.strip(chars)
str_strip(s, cs) == rstrip(lstrip(s, cs), cs)

\* the class [a-z0-9_]
IsWordChar(c) == c \in LowerSet \cup DigitSet \cup {"_"}

\* re.sub(r"[^a-z0-9_]+", "_", s): every maximal run outside the class becomes one "_"
RECURSIVE re_sub_nonword(_)
re_sub_nonword(s) ==
    IF s = <<>> THEN <<>>
    ELSE IF IsWordChar(Head(s)) THEN <<Head(s)>> \o re_sub_nonword(Tail(s))
    ELSE IF Len(s) > 1 /\ ~IsWordChar(s[2]) THEN re_sub_nonword(Tail(s))
    ELSE <<"_">> \o re_sub_nonword(Tail(s))

\* F applied to the value of x, x being evaluated once
With(x, F(_)) == CHOOSE r \in {F(y) : y \in {x}} : TRUE

RECURSIVE Concat(_)
Concat(ss) == IF ss = <<>> THEN <<>> ELSE Head(ss) \o Concat(Tail(ss))

(***************************************************************************)
(* Python values.                                                          *)
(***************************************************************************)
NoneV == [t |-> "none", v |-> 0]
S(cs) == [t |-> "str", v |-> cs]
I(n) == [t |-> "int", v |-> n]
B(b) == [t |-> "bool", v |-> b]
L(vs) == [t |-> "list", v |-> vs]
\* a dict: its (key, value) pairs in insertion order, keys distinct
D(kvs) == [t |-> "dict", v |-> kvs]
KV(k, x) == [k |-> k, val |-> x]
\* an object: its identity and its attributes; an attribute holding a plain value
\* is an instance field, the other kinds are class members
O(oid, attrs) == [t |-> "obj", v |-> [oid |-> oid, attrs |-> attrs]]
\* a property whose getter raises an exception other than AttributeError
Raise == [t |-> "raise", v |-> 0]
\* a zero-argument callable returning r (or raising, r = Raise)
Meth(r) == [t |-> "meth", v |-> r]
\* a one-argument lookup callable (get, __getitem__) over the pairs kvs
Getter(kvs) == [t |-> "getter", v |-> kvs]
\* a property (a class member) whose getter returns x
Prop(x) == [t |-> "prop", v |-> x]
\* a one-shot iterator over the sequence vs, done telling whether it is used up
Iter(vs, done) == [t |-> "iter", v |-> [vs |-> vs, done |-> done]]

HasKey(kvs, k) == \E i \in DOMAIN kvs : kvs[i].k = k
Lookup(kvs, k) == kvs[CHOOSE i \in DOMAIN kvs : kvs[i].k = k].val

\* bool(v)
Truthy(x) ==
    CASE x.t = "none" -> FALSE
      [] x.t = "str" -> x.v # <<>>
      [] x.t = "int" -> x.v # 0
      [] x.t = "bool" -> x.v
      [] x.t = "list" -> x.v # <<>>
      [] x.t = "dict" -> x.v # <<>>
      [] OTHER -> TRUE

RECURSIVE int_digits(_)
int_digits(n) ==
    IF n < 10 THEN <<DIGITS[n + 1]>> ELSE int_digits(n \div 10) \o <<DIGITS[(n % 10) + 1]>>

\* the characters of a dict key
KeyChars(k) ==
    CASE k = "id" -> <<"i", "d">>
      [] k = "jpro_id" -> <<"j", "p", "r", "o", "_", "i", "d">>
      [] k = "uid" -> <<"u", "i", "d">>
      [] k = "name" -> <<"n", "a", "m", "e">>
      [] k = "general" -> <<"g", "e", "n", "e", "r", "a", "l">>
      [] k = "data" -> <<"d", "a", "t", "a">>
      [] OTHER -> <<k>>

RECURSIVE repr(_)
RECURSIVE repr_list(_)
RECURSIVE repr_dict(_)
\* repr(x); an object has the default repr, which names its identity
repr(x) ==
    CASE x.t = "none" -> <<"N", "o", "n", "e">>
      [] x.t = "str" -> <<"'">> \o x.v \o <<"'">>
      [] x.t = "int" -> int_digits(x.v)
      [] x.t = "bool" -> IF x.v THEN <<"T", "r", "u", "e">> ELSE <<"F", "a", "l", "s", "e">>
      [] x.t = "list" -> <<"[">> \o repr_list(x.v) \o <<"]">>
      [] x.t = "dict" -> <<"{">> \o repr_dict(x.v) \o <<"}">>
      [] x.t = "obj" -> <<"<", "o", "b", "j", " ">> \o int_digits(x.v.oid) \o <<">">>
      [] OTHER -> <<"<", x.t, ">">>
repr_list(vs) ==
    IF vs = <<>> THEN <<>>
    ELSE repr(Head(vs)) \o (IF Len(vs) > 1 THEN <<",", " ">> ELSE <<>>) \o repr_list(Tail(vs))
repr_dict(kvs) ==
    IF kvs = <<>> THEN <<>>
    ELSE <<"'">> \o KeyChars(Head(kvs).k) \o <<"'", ":", " ">> \o repr(Head(kvs).val)
         \o (IF Len(kvs) > 1 THEN <<",", " ">> ELSE <<>>) \o repr_dict(Tail(kvs))

\* str(x)
str(x) == IF x.t = "str" THEN x.v ELSE repr(x)

(***************************************************************************)
(* sanitize_name                                                           *)
(***************************************************************************)
\* a prefix rule that provides for the empty result only
sanitize_prefix_empty_only(s) == IF s = <<>> THEN <<"r">> ELSE s

\* the branch of sanitize_name that prefixes an empty or digit-led name
sanitize_prefix(s) ==
    IF s = <<>> \/ s[1] \in DigitSet
    THEN (IF s # <<>> THEN <<"r", "_">> \o s ELSE <<"r">>)
    ELSE s

\* a sanitizer that leaves the underscores at both ends in place
sanitize_name_keep_underscores(x) ==
    sanitize_prefix(re_sub_nonword(str_lower(str_strip(str(x), SpaceSet))))

sanitize_name(x) ==
    LET s1 == str_lower(str_strip(str(x), SpaceSet))
        s2 == re_sub_nonword(s1)
        s3 == str_strip(s2, {"_"})
    IN  sanitize_prefix(s3)

(***************************************************************************)
(* Attribute access and calls on Python values.                            *)
(***************************************************************************)
\* the value keys() of a mapping-like object returns: its key names
KeyList(ks) == [t |-> "keylist", v |-> ks]
\* a one-argument lookup callable that raises on every call
RaisingGetter == [t |-> "raisegetter", v |-> 0]

\* getattr(o, name, None): Raise stands for an exception other than
\* AttributeError leaving the attribute's getter, which getattr lets through
GetAttr(o, name) ==
    CASE o.t = "obj" ->
            IF ~HasKey(o.v.attrs, name) THEN NoneV
            ELSE IF Lookup(o.v.attrs, name).t = "prop" THEN Lookup(o.v.attrs, name).v
            ELSE Lookup(o.v.attrs, name)
      [] o.t = "dict" ->
            IF name = "get" THEN Getter(o.v)
            ELSE IF name = "keys" THEN Meth(KeyList([i \in DOMAIN o.v |-> o.v[i].k]))
            ELSE NoneV
      [] OTHER -> NoneV

\* callable(e)
Callable(e) == e.t \in {"meth", "getter", "raisegetter"}

\* e(): Raise stands for any exception of the call
Call0(e) == IF e.t = "meth" THEN e.v ELSE Raise

\* e(k)
Call1(e, k) ==
    IF e.t = "getter" THEN (IF HasKey(e.v, k) THEN Lookup(e.v, k) ELSE NoneV)
    ELSE Raise

\* o[k]: a dict is indexed by key (KeyError when absent), an object through its
\* __getitem__, anything else raises
Index(o, k) ==
    CASE o.t = "dict" -> IF HasKey(o.v, k) THEN Lookup(o.v, k) ELSE Raise
      [] o.t = "obj" ->
            IF HasKey(o.v.attrs, "__getitem__") /\ Lookup(o.v.attrs, "__getitem__").t = "getter"
            THEN (IF HasKey(Lookup(o.v.attrs, "__getitem__").v, k)
                  THEN Lookup(Lookup(o.v.attrs, "__getitem__").v, k) ELSE Raise)
            ELSE Raise
      [] OTHER -> Raise

\* d.get(k) on a dict
DictGet(d, k) == IF HasKey(d.v, k) THEN Lookup(d.v, k) ELSE NoneV

\* the texts json.loads is given here, with what they parse to
JSON_ID7 == <<"{", "\"", "i", "d", "\"", ":", " ", "\"", "7", "\"", "}">>
JSON_LIST == <<"[", "]">>
json_loads(s) ==
    CASE s = JSON_ID7 -> D(<<KV("id", S(<<"7">>))>>)
      [] s = JSON_LIST -> L(<<>>)
      [] OTHER -> Raise

_json_try_parse(x) ==
    IF x.t = "str"
    THEN (IF json_loads(x.v).t = "raise" THEN NoneV ELSE json_loads(x.v))
    ELSE NoneV

(***************************************************************************)
(* obj_to_dict_deep                                                        *)
(***************************************************************************)
MaxDepth == 3

CONTAINER_ATTRS == <<"data", "_data", "payload", "_payload", "raw", "_raw", "value",
                     "_value", "item", "obj", "object", "response", "record", "entity",
                     "document", "body">>
CONVERSION_METHODS == <<"to_dict", "dict", "model_dump">>

\* The outcome of a walk: the value returned (r), the identities seen so far, and
\* whether an exception left the walk instead (exc).
Ret(r, seen) == [r |-> r, seen |-> seen, exc |-> FALSE]
Exc(seen) == [r |-> NoneV, seen |-> seen, exc |-> TRUE]

\* id(o) as the seen set records it.  Only objects are tracked: a value of another
\* type walks to the same result whether or not it was seen before.
Ident(o) == IF o.t = "obj" THEN {o.v.oid} ELSE {}

\* vars(o): the instance fields of an object; TypeError (Raise) for other values
Vars(o) ==
    IF o.t = "obj"
    THEN D(SelectSeq(o.v.attrs,
                     LAMBDA a : a.val.t \notin {"raise", "prop", "meth", "getter",
                                                 "raisegetter"}))
    ELSE Raise

\* the dict comprehension {k: o.get(k) for k in o.keys()}: Raise when keys() or a
\* get(k) raises, or when keys or get is no callable of that shape
Materialize(o) ==
    LET ks == Call0(GetAttr(o, "keys"))
        get == GetAttr(o, "get")
    IN  IF ks.t = "keylist" /\ get.t = "getter"
        THEN D([i \in DOMAIN ks.v |-> KV(ks.v[i], Call1(get, ks.v[i]))])
        ELSE Raise

RECURSIVE walk(_, _, _)
RECURSIVE walk_mapping(_, _, _)
RECURSIVE walk_containers(_, _, _, _)
RECURSIVE walk_methods(_, _, _, _)
RECURSIVE walk_json(_, _, _)
RECURSIVE walk_vars(_, _, _)
RECURSIVE walk_body(_, _, _)

\* try vars()
walk_vars(o, depth, seen) ==
    With(Vars(o), LAMBDA vs :
        IF vs.t = "dict" /\ vs.v # <<>>
        THEN IF Len(vs.v) = 1
             THEN With(walk(vs.v[1].val, depth - 1, seen), LAMBDA w :
                      IF w.exc THEN Ret(NoneV, w.seen)
                      ELSE IF w.r.t = "dict" THEN w
                      ELSE Ret(vs, w.seen))
             ELSE Ret(vs, seen)
        ELSE Ret(NoneV, seen))

\* json() often returns a json string
walk_json(o, depth, seen) ==
    With(GetAttr(o, "json"), LAMBDA fn :
        IF fn.t = "raise" THEN Exc(seen)
        ELSE IF Callable(fn) /\ Call0(fn).t # "raise" /\ _json_try_parse(Call0(fn)).t = "dict"
        THEN Ret(_json_try_parse(Call0(fn)), seen)
        ELSE walk_vars(o, depth, seen))

\* the first index from i on, within the names ns, at which getattr(o, name, None)
\* is not None (an exception of the getter included), or 0: the loops below pass
\* over the names before it without any effect
NextAttr(o, ns, i) ==
    LET hits == {j \in i..Len(ns) : GetAttr(o, ns[j]).t # "none"}
    IN  IF hits = {} THEN 0 ELSE CHOOSE j \in hits : \A k \in hits : j <= k

\* common conversion methods, from the i-th on
walk_methods(o, depth, seen, i) ==
    With(NextAttr(o, CONVERSION_METHODS, i), LAMBDA j :
    IF j = 0 THEN walk_json(o, depth, seen)
    ELSE With(GetAttr(o, CONVERSION_METHODS[j]), LAMBDA fn :
         IF fn.t = "raise" THEN Exc(seen)
         ELSE IF ~Callable(fn) \/ Call0(fn).t = "raise"
         THEN walk_methods(o, depth, seen, j + 1)
         ELSE IF Call0(fn).t = "dict" THEN Ret(Call0(fn), seen)
         ELSE With(walk(Call0(fn), depth - 1, seen), LAMBDA w :
                  IF ~w.exc /\ w.r.t = "dict" THEN w
                  ELSE walk_methods(o, depth, w.seen, j + 1))))

\* explicit known containers, from the i-th on
walk_containers(o, depth, seen, i) ==
    With(NextAttr(o, CONTAINER_ATTRS, i), LAMBDA j :
    IF j = 0 THEN walk_methods(o, depth, seen, 1)
    ELSE With(GetAttr(o, CONTAINER_ATTRS[j]), LAMBDA v :
         IF v.t = "raise" THEN Exc(seen)
         ELSE IF v.t = "dict" THEN Ret(v, seen)
         ELSE With(walk(v, depth - 1, seen), LAMBDA w :
                  IF w.exc THEN w
                  ELSE IF w.r.t = "dict" THEN w
                  ELSE walk_containers(o, depth, w.seen, j + 1))))

\* mapping-like: hasattr(o, "keys") and hasattr(o, "get"), then the comprehension
walk_mapping(o, depth, seen) ==
    LET ks == GetAttr(o, "keys")
        get == GetAttr(o, "get")
    IN  IF ks.t = "raise" THEN Exc(seen)
        ELSE IF ks.t = "none" THEN walk_containers(o, depth, seen, 1)
        ELSE IF get.t = "raise" THEN Exc(seen)
        ELSE IF get.t # "none" /\ Materialize(o).t = "dict" THEN Ret(Materialize(o), seen)
        ELSE walk_containers(o, depth, seen, 1)

\* the body of _walk(o, depth), with the seen set passed along
walk_body(o, depth, seen) ==
    IF o.t = "none" THEN Ret(NoneV, seen)
    ELSE IF Ident(o) \subseteq seen /\ Ident(o) # {} THEN Ret(NoneV, seen)
    ELSE IF depth < 0 THEN Ret(NoneV, seen)
    ELSE IF o.t = "dict" THEN Ret(o, seen \cup Ident(o))
    ELSE With(seen \cup Ident(o), LAMBDA sn : walk_mapping(o, depth, sn))

walk(o, depth, seen) ==
    With(o, LAMBDA x : With(depth, LAMBDA d : With(seen, LAMBDA sn : walk_body(x, d, sn))))

obj_to_dict_deep(obj, max_depth) == walk(obj, max_depth, {})

(***************************************************************************)
(* extract_id_any                                                          *)
(***************************************************************************)
ID_KEYS == <<"jpro_id", "id", "Id", "ID", "profileId", "profileID", "uuid", "uid">>
NESTED_KEYS == <<"general", "profile", "configurationProfile", "payloadContent", "data">>
NESTED_ID_KEYS == <<"jpro_id", "id", "uuid", "profileId">>
GET_ID_KEYS == <<"jpro_id", "id", "uuid", "profileId">>
INDEX_ID_KEYS == <<"jpro_id", "id">>

\* What the extractor found: the step that found it and the raw value, before str().
\* step "none": every step failed; step "raise": an exception left the extractor.
Found(step, raw) == [step |-> step, raw |-> raw]

\* the test of the top-level scan: d[k] is not None and d[k] != ""
TopPresent(x) == x.t # "none" /\ ~(x.t = "str" /\ x.v = <<>>)

\* the test of the top-level scan used at the other steps as well
FallbackPresentAsTop(x) == x.t # "none" /\ ~(x.t = "str" /\ x.v = <<>>)

\* the test of every other step: if v
FallbackPresent(x) == Truthy(x)

\* the least index in 1..n with P, or 0
FirstIndex(n, P(_)) ==
    IF \E i \in 1..n : P(i)
    THEN CHOOSE i \in 1..n : P(i) /\ \A j \in 1..(i - 1) : ~P(j)
    ELSE 0

\* try: v = item[k]; if v: return str(v), over the keys from the i-th on
RECURSIVE id_by_index(_, _)
id_by_index(item, i) ==
    IF i > Len(INDEX_ID_KEYS) THEN Found("none", NoneV)
    ELSE LET v == Index(item, INDEX_ID_KEYS[i]) IN
         IF v.t # "raise" /\ FallbackPresent(v) THEN Found("index", v)
         ELSE id_by_index(item, i + 1)

\* mapping style get
id_by_get(item) ==
    With(GetAttr(item, "get"), LAMBDA get :
        LET hit(i) == Call1(get, GET_ID_KEYS[i]).t # "raise"
                      /\ FallbackPresent(Call1(get, GET_ID_KEYS[i]))
            i == FirstIndex(Len(GET_ID_KEYS), hit)
        IN  IF get.t = "raise" THEN Found("raise", NoneV)
            ELSE IF Callable(get) /\ i # 0 THEN Found("get", Call1(get, GET_ID_KEYS[i]))
            ELSE id_by_index(item, 1))

\* attribute fallbacks, from the i-th key on
RECURSIVE id_by_attr(_, _)
id_by_attr(item, i) ==
    IF i > Len(ID_KEYS) THEN id_by_get(item)
    ELSE LET v == GetAttr(item, ID_KEYS[i]) IN
         IF v.t = "raise" THEN Found("raise", NoneV)
         ELSE IF FallbackPresent(v) THEN Found("attr", v)
         ELSE id_by_attr(item, i + 1)

\* common nested areas of the probed dict d
id_nested(d) ==
    LET sub(i) == DictGet(d, NESTED_KEYS[i])
        inner(i, j) == sub(i).t = "dict" /\ FallbackPresent(DictGet(sub(i), NESTED_ID_KEYS[j]))
        hit(i) == \E j \in DOMAIN NESTED_ID_KEYS : inner(i, j)
        i == FirstIndex(Len(NESTED_KEYS), hit)
        j == FirstIndex(Len(NESTED_ID_KEYS), LAMBDA jj : inner(i, jj))
    IN  IF i = 0 THEN Found("none", NoneV)
        ELSE Found("nested", DictGet(sub(i), NESTED_ID_KEYS[j]))

\* common ID fields of the probed dict d
id_top(d) ==
    LET hit(i) == HasKey(d.v, ID_KEYS[i]) /\ TopPresent(Lookup(d.v, ID_KEYS[i]))
        i == FirstIndex(Len(ID_KEYS), hit)
    IN  IF i = 0 THEN Found("none", NoneV) ELSE Found("top", Lookup(d.v, ID_KEYS[i]))

\* the value extract_id_any settles on, with the step that found it
find_id(item) ==
    With(obj_to_dict_deep(item, MaxDepth), LAMBDA w :
        IF w.exc THEN Found("raise", NoneV)
        ELSE IF w.r.t = "dict" /\ id_top(w.r).step # "none" THEN id_top(w.r)
        ELSE IF w.r.t = "dict" /\ id_nested(w.r).step # "none" THEN id_nested(w.r)
        ELSE id_by_attr(item, 1))

\* extract_id_any(item): a str, None, or Raise for an exception
extract_id_any(item) ==
    With(find_id(item), LAMBDA f :
        CASE f.step = "raise" -> Raise
          [] f.step = "none" -> NoneV
          [] OTHER -> S(str(f.raw)))

(***************************************************************************)
(* extract_name_any                                                        *)
(***************************************************************************)
NAME_KEYS == <<"name", "displayName", "profileName", "computer_group_name", "generalName">>
NAME_ATTRS == <<"name", "displayName", "profileName">>
ID_PREFIX == <<"i", "d", "_">>

\* attribute fallback, from the i-th name on, then the synthetic name
RECURSIVE name_by_attr(_, _, _)
name_by_attr(item, fallback_id, i) ==
    IF i > Len(NAME_ATTRS) THEN S(sanitize_name(S(ID_PREFIX \o fallback_id)))
    ELSE LET v == GetAttr(item, NAME_ATTRS[i]) IN
         IF v.t = "raise" THEN Raise
         ELSE IF Truthy(v) THEN S(sanitize_name(v))
         ELSE name_by_attr(item, fallback_id, i + 1)

\* extract_name_any(item, fallback_id): a str, or Raise for an exception
extract_name_any(item, fallback_id) ==
    With(obj_to_dict_deep(item, MaxDepth), LAMBDA w :
        LET d == w.r
            top(i) == Truthy(DictGet(d, NAME_KEYS[i]))
            ti == FirstIndex(Len(NAME_KEYS), top)
            sub(i) == DictGet(d, NESTED_KEYS[i])
            nested(i) == sub(i).t = "dict" /\ Truthy(DictGet(sub(i), "name"))
            ni == FirstIndex(Len(NESTED_KEYS), nested)
        IN  IF w.exc THEN Raise
            ELSE IF d.t = "dict" /\ ti # 0 THEN S(sanitize_name(DictGet(d, NAME_KEYS[ti])))
            ELSE IF d.t = "dict" /\ ni # 0 THEN S(sanitize_name(DictGet(sub(ni), "name")))
            ELSE name_by_attr(item, fallback_id, 1))

(***************************************************************************)
(* The tag table, detect_tag and the classification of a tag.              *)
(***************************************************************************)
K_MACOS_CONFIG_PROFILE ==
    <<"M", "A", "C", "O", "S", "_", "C", "O", "N", "F", "I", "G", "_", "P", "R", "O", "F", "I", "L", "E">>
K_SCRIPT ==
    <<"S", "C", "R", "I", "P", "T">>
K_CATEGORY ==
    <<"C", "A", "T", "E", "G", "O", "R", "Y">>
K_POLICY ==
    <<"P", "O", "L", "I", "C", "Y">>
K_STATIC_COMPUTER_GROUP ==
    <<"S", "T", "A", "T", "I", "C", "_", "C", "O", "M", "P", "U", "T", "E", "R", "_", "G", "R", "O", "U", "P">>
K_SMART_COMPUTER_GROUP ==
    <<"S", "M", "A", "R", "T", "_", "C", "O", "M", "P", "U", "T", "E", "R", "_", "G", "R", "O", "U", "P">>
K_ADVANCED_COMPUTER_SEARCH ==
    <<"A", "D", "V", "A", "N", "C", "E", "D", "_", "C", "O", "M", "P", "U", "T", "E", "R", "_", "S", "E", "A", "R", "C", "H">>
K_COMPUTER_EXTENSION_ATTRIBUTE ==
    <<"C", "O", "M", "P", "U", "T", "E", "R", "_", "E", "X", "T", "E", "N", "S", "I", "O", "N", "_", "A", "T", "T", "R", "I", "B", "U", "T", "E">>
T_MACOS_CONFIG_PROFILE ==
    <<"j", "a", "m", "f", "p", "r", "o", "_", "m", "a", "c", "o", "s", "_", "c", "o", "n", "f", "i", "g", "u", "r", "a", "t", "i", "o", "n", "_", "p", "r", "o", "f", "i", "l", "e", "_", "p", "l", "i", "s", "t">>
T_SCRIPT ==
    <<"j", "a", "m", "f", "p", "r", "o", "_", "s", "c", "r", "i", "p", "t">>
T_CATEGORY ==
    <<"j", "a", "m", "f", "p", "r", "o", "_", "c", "a", "t", "e", "g", "o", "r", "y">>
T_POLICY ==
    <<"j", "a", "m", "f", "p", "r", "o", "_", "p", "o", "l", "i", "c", "y">>
T_STATIC_COMPUTER_GROUP ==
    <<"j", "a", "m", "f", "p", "r", "o", "_", "s", "t", "a", "t", "i", "c", "_", "c", "o", "m", "p", "u", "t", "e", "r", "_", "g", "r", "o", "u", "p">>
T_SMART_COMPUTER_GROUP ==
    <<"j", "a", "m", "f", "p", "r", "o", "_", "s", "m", "a", "r", "t", "_", "c", "o", "m", "p", "u", "t", "e", "r", "_", "g", "r", "o", "u", "p">>
T_ADVANCED_COMPUTER_SEARCH ==
    <<"j", "a", "m", "f", "p", "r", "o", "_", "a", "d", "v", "a", "n", "c", "e", "d", "_", "c", "o", "m", "p", "u", "t", "e", "r", "_", "s", "e", "a", "r", "c", "h">>
T_COMPUTER_EXTENSION_ATTRIBUTE ==
    <<"j", "a", "m", "f", "p", "r", "o", "_", "c", "o", "m", "p", "u", "t", "e", "r", "_", "e", "x", "t", "e", "n", "s", "i", "o", "n", "_", "a", "t", "t", "r", "i", "b", "u", "t", "e">>

TERRAFORM_TYPE_MAP ==
    <<[key |-> K_MACOS_CONFIG_PROFILE, val |-> T_MACOS_CONFIG_PROFILE],
      [key |-> K_SCRIPT, val |-> T_SCRIPT],
      [key |-> K_CATEGORY, val |-> T_CATEGORY],
      [key |-> K_POLICY, val |-> T_POLICY],
      [key |-> K_STATIC_COMPUTER_GROUP, val |-> T_STATIC_COMPUTER_GROUP],
      [key |-> K_SMART_COMPUTER_GROUP, val |-> T_SMART_COMPUTER_GROUP],
      [key |-> K_ADVANCED_COMPUTER_SEARCH, val |-> T_ADVANCED_COMPUTER_SEARCH],
      [key |-> K_COMPUTER_EXTENSION_ATTRIBUTE, val |-> T_COMPUTER_EXTENSION_ATTRIBUTE]>>

\* the alternatives of detect_tag's pattern, in the order written
TAG_ALTERNATIVES ==
    <<K_MACOS_CONFIG_PROFILE,
      K_SCRIPT,
      K_CATEGORY,
      K_POLICY,
      K_STATIC_COMPUTER_GROUP,
      K_SMART_COMPUTER_GROUP,
      K_ADVANCED_COMPUTER_SEARCH,
      K_COMPUTER_EXTENSION_ATTRIBUTE>>

\* key occurs in s at position p
MatchAt(s, p, key) ==
    p + Len(key) - 1 <= Len(s) /\ SubSeq(s, p, p + Len(key) - 1) = key

\* key in s
Contains(s, key) == \E p \in 1..Len(s) : MatchAt(s, p, key)

\* re.search of the alternation in s: the leftmost position where an alternative
\* matches and, there, the first alternative that does; <<>> when none matches
re_search_tag(s) ==
    LET hit(p) == \E a \in DOMAIN TAG_ALTERNATIVES : MatchAt(s, p, TAG_ALTERNATIVES[a])
    IN  With(FirstIndex(Len(s), hit), LAMBDA p :
            IF p = 0 THEN <<>>
            ELSE TAG_ALTERNATIVES[FirstIndex(Len(TAG_ALTERNATIVES),
                                             LAMBDA x : MatchAt(s, p, TAG_ALTERNATIVES[x]))])

\* str(tag) of the resource: resource_type, or provider_tag when that is None
tag_str(res) ==
    LET rt == GetAttr(res, "resource_type") IN
    str(IF rt.t = "none" THEN GetAttr(res, "provider_tag") ELSE rt)

\* a detect_tag that hands the whole tag string on
tag_of_match_raw(s) == s

\* m.group(1) if m else tag_str
tag_of_match(s) == With(re_search_tag(s), LAMBDA m : IF m # <<>> THEN m ELSE s)

detect_tag(res) == With(tag_str(res), LAMBDA s : tag_of_match(s))

\* the loop over TERRAFORM_TYPE_MAP.items() in compose_import_hcl: the value of the
\* first key contained in tag, <<>> for tf_type = None
tf_type_of(tg) ==
    With(tg, LAMBDA s :
        With(FirstIndex(Len(TERRAFORM_TYPE_MAP),
                        LAMBDA x : Contains(s, TERRAFORM_TYPE_MAP[x].key)),
             LAMBDA i : IF i = 0 THEN <<>> ELSE TERRAFORM_TYPE_MAP[i].val))

(***************************************************************************)
(* iter_items_from_resource                                                *)
(***************************************************************************)
CAND_ATTRS == <<"data", "_data", "dataset", "items", "all">>
GETTER_METHODS == <<"get_all", "to_list", "list", "all">>

\* What the call returns (items) and the resource after it (res): listing a
\* one-shot iterator uses it up.  exc: an exception left the call.
Items(vs, res) == [items |-> vs, res |-> res, exc |-> FALSE]

\* isinstance(val, Iterable) for the value a callable returned
IsIterable(x) == x.t \in {"list", "iter", "str", "dict"}

\* list(val) for the value a callable returned (a fresh iterator each call)
ListOf(x) ==
    CASE x.t = "list" -> x.v
      [] x.t = "iter" -> IF x.v.done THEN <<>> ELSE x.v.vs
      [] x.t = "str" -> [i \in DOMAIN x.v |-> S(<<x.v[i]>>)]
      [] x.t = "dict" -> [i \in DOMAIN x.v |-> S(KeyChars(x.v[i].k))]
      [] OTHER -> <<>>

\* the attribute name of res with its one-shot iterator used up
Consume(res, name) ==
    O(res.v.oid,
      [i \in DOMAIN res.v.attrs |->
          IF res.v.attrs[i].k = name
          THEN KV(name, Iter(res.v.attrs[i].val.v.vs, TRUE))
          ELSE res.v.attrs[i]])

\* try common getter methods, from the i-th on
RECURSIVE items_by_method(_, _)
items_by_method(res, i) ==
    IF i > Len(GETTER_METHODS) THEN Items(<<>>, res)
    ELSE LET fn == GetAttr(res, GETTER_METHODS[i]) IN
         IF fn.t = "raise" THEN [items |-> <<>>, res |-> res, exc |-> TRUE]
         ELSE IF Callable(fn) /\ IsIterable(Call0(fn)) THEN Items(ListOf(Call0(fn)), res)
         ELSE items_by_method(res, i + 1)

\* the candidate attributes, from the i-th on
RECURSIVE items_by_attr(_, _)
items_by_attr(res, i) ==
    IF i > Len(CAND_ATTRS) THEN items_by_method(res, 1)
    ELSE LET obj == GetAttr(res, CAND_ATTRS[i]) IN
         IF obj.t = "raise" THEN [items |-> <<>>, res |-> res, exc |-> TRUE]
         ELSE IF Callable(obj) /\ IsIterable(Call0(obj)) THEN Items(ListOf(Call0(obj)), res)
         ELSE IF obj.t = "list" THEN Items(obj.v, res)
         ELSE IF obj.t = "iter"
         THEN Items(ListOf(obj), Consume(res, CAND_ATTRS[i]))
         ELSE items_by_attr(res, i + 1)

iter_items_from_resource(res) == items_by_attr(res, 1)

(***************************************************************************)
(* compose_import_hcl                                                      *)
(***************************************************************************)
dump_cap == 20

BLOCK_HEAD == <<"i", "m", "p", "o", "r", "t", " ", "{", "\n", " ", " ", "i", "d", " ", "=", " ", "\"">>
BLOCK_TO == <<"\"", "\n", " ", " ", "t", "o", " ", "=", " ">>
BLOCK_TAIL == <<"\n", "}">>
MSG_UNSUPPORTED ==
    <<"#", " ", "S", "k", "i", "p", "p", "i", "n", "g", " ", "u", "n", "s", "u", "p", "p", "o",
      "r", "t", "e", "d", " ", "r", "e", "s", "o", "u", "r", "c", "e", " ", "t", "a", "g", ":", " ">>
MSG_NO_ITEMS ==
    <<"#", " ", "N", "o", " ", "i", "t", "e", "m", "s", " ", "f", "o", "u", "n", "d", " ", "f",
      "o", "r", " ">>
MSG_NO_ID ==
    <<"#", " ", "C", "o", "u", "l", "d", " ", "n", "o", "t", " ", "e", "x", "t", "r", "a", "c",
      "t", " ", "i", "d", " ", "f", "o", "r", " ", "i", "t", "e", "m", " ", "i", "n", " ">>

\* the import block of one resolved item
import_block(rid, ty, local) ==
    BLOCK_HEAD \o rid \o BLOCK_TO \o ty \o <<".">> \o local \o BLOCK_TAIL

unsupported_line(tg) == MSG_UNSUPPORTED \o tg
no_items_line(tg) == MSG_NO_ITEMS \o tg
no_id_line(tg, item) == MSG_NO_ID \o tg \o <<":", " ">> \o repr(item)

\* sep.join(bs)
RECURSIVE str_join(_, _)
str_join(sep, bs) ==
    IF bs = <<>> THEN <<>>
    ELSE IF Len(bs) = 1 THEN bs[1]
    ELSE bs[1] \o sep \o str_join(sep, Tail(bs))

\* entries joined by the end of a line only
join_blocks_one_newline(bs) == str_join(<<"\n">>, bs) \o (IF bs # <<>> THEN <<"\n">> ELSE <<>>)

\* "\n\n".join(blocks) + ("\n" if blocks else "")
join_blocks(bs) == str_join(<<"\n", "\n">>, bs) \o (IF bs # <<>> THEN <<"\n">> ELSE <<>>)

\* json.dumps accepts the value
RECURSIVE Serializable(_)
Serializable(x) ==
    CASE x.t \in {"none", "str", "int", "bool"} -> TRUE
      [] x.t = "list" -> \A i \in DOMAIN x.v : Serializable(x.v[i])
      [] x.t = "dict" -> \A i \in DOMAIN x.v : Serializable(x.v[i].val)
      [] OTHER -> FALSE

\* the body of the try of the sample dump runs to its end: probing raises nothing
\* and json.dumps accepts the record (the probed dict, or the repr fallback)
dump_succeeds(item) ==
    With(obj_to_dict_deep(item, MaxDepth), LAMBDA w :
        /\ ~w.exc
        /\ Serializable(IF w.r.t # "none" THEN w.r ELSE D(<<KV("repr", S(repr(item)))>>)))

\* a cap that is compared with <=
dump_wanted_upto(dmp, n) == dmp = "open" /\ n <= dump_cap

\* if dumper and dumped < dump_cap
dump_wanted(dmp, n) == dmp = "open" /\ n < dump_cap

\* the resource's tag attributes raise on access
tag_raises(res) ==
    LET rt == GetAttr(res, "resource_type") IN
    rt.t = "raise" \/ (rt.t = "none" /\ GetAttr(res, "provider_tag").t = "raise")

\* a call that starts from the entries the call before it left
BeginKeepBlocks ==
    /\ pc = "start"
    /\ blocks' = blocks
    /\ dumped' = 0
    /\ dumper' = IF dump_path THEN "open" ELSE "none"
    /\ sink' = IF dump_path THEN 0 ELSE sink
    /\ res_i' = 1
    /\ item_i' = 1
    /\ tag' = <<>>
    /\ tf_type' = <<>>
    /\ items' = <<>>
    /\ pc' = "groups"
    /\ UNCHANGED <<arg, ret, resources, dump_path, out, calls, first_out>>

\* lines 374-379: the locals are set and the sink, if a path is given, is opened
\* for writing, which empties it
Begin ==
    /\ pc = "start"
    /\ blocks' = <<>>
    /\ dumped' = 0
    /\ dumper' = IF dump_path THEN "open" ELSE "none"
    /\ sink' = IF dump_path THEN 0 ELSE sink
    /\ res_i' = 1
    /\ item_i' = 1
    /\ tag' = <<>>
    /\ tf_type' = <<>>
    /\ items' = <<>>
    /\ pc' = "groups"
    /\ UNCHANGED <<arg, ret, resources, dump_path, out, calls, first_out>>

\* an unsupported group that ends the loop over the groups (break for continue)
GroupUnsupportedBreak ==
    /\ pc = "groups"
    /\ res_i <= Len(resources)
    /\ ~tag_raises(resources[res_i])
    /\ tf_type_of(detect_tag(resources[res_i])) = <<>>
    /\ tag' = detect_tag(resources[res_i])
    /\ tf_type' = <<>>
    /\ blocks' = Append(blocks, unsupported_line(detect_tag(resources[res_i])))
    /\ res_i' = Len(resources) + 1
    /\ UNCHANGED <<pc, arg, ret, resources, dump_path, items, item_i, dumper, dumped,
                   sink, out, calls, first_out>>

\* lines 381-390: the group's tag matches no key of the table
GroupUnsupported ==
    /\ pc = "groups"
    /\ res_i <= Len(resources)
    /\ ~tag_raises(resources[res_i])
    /\ tf_type_of(detect_tag(resources[res_i])) = <<>>
    /\ tag' = detect_tag(resources[res_i])
    /\ tf_type' = <<>>
    /\ blocks' = Append(blocks, unsupported_line(detect_tag(resources[res_i])))
    /\ res_i' = res_i + 1
    /\ UNCHANGED <<pc, arg, ret, resources, dump_path, items, item_i, dumper, dumped,
                   sink, out, calls, first_out>>

\* lines 381-395: a classified group whose items accessor yields nothing
GroupEmpty ==
    /\ pc = "groups"
    /\ res_i <= Len(resources)
    /\ ~tag_raises(resources[res_i])
    /\ tf_type_of(detect_tag(resources[res_i])) # <<>>
    /\ LET got == iter_items_from_resource(resources[res_i]) IN
       /\ ~got.exc
       /\ got.items = <<>>
       /\ resources' = [resources EXCEPT ![res_i] = got.res]
       /\ items' = got.items
    /\ tag' = detect_tag(resources[res_i])
    /\ tf_type' = tf_type_of(detect_tag(resources[res_i]))
    /\ blocks' = Append(blocks, no_items_line(detect_tag(resources[res_i])))
    /\ res_i' = res_i + 1
    /\ UNCHANGED <<pc, arg, ret, dump_path, item_i, dumper, dumped, sink, out, calls,
                   first_out>>

\* lines 381-397: a classified group with items: the inner loop starts
GroupEnter ==
    /\ pc = "groups"
    /\ res_i <= Len(resources)
    /\ ~tag_raises(resources[res_i])
    /\ tf_type_of(detect_tag(resources[res_i])) # <<>>
    /\ LET got == iter_items_from_resource(resources[res_i]) IN
       /\ ~got.exc
       /\ got.items # <<>>
       /\ resources' = [resources EXCEPT ![res_i] = got.res]
       /\ items' = got.items
    /\ tag' = detect_tag(resources[res_i])
    /\ tf_type' = tf_type_of(detect_tag(resources[res_i]))
    /\ item_i' = 1
    /\ pc' = "items"
    /\ UNCHANGED <<arg, ret, dump_path, res_i, blocks, dumper, dumped, sink, out, calls,
                   first_out>>

\* lines 398-404: the sample dump of the current item
DumpItem ==
    IF dump_wanted(dumper, dumped) /\ dump_succeeds(items[item_i])
    THEN sink' = sink + 1 /\ dumped' = dumped + 1
    ELSE UNCHANGED <<sink, dumped>>

\* the inner loop moves on; after the last item the outer loop does
NextItem ==
    IF item_i < Len(items)
    THEN item_i' = item_i + 1 /\ UNCHANGED <<pc, res_i>>
    ELSE item_i' = 1 /\ pc' = "groups" /\ res_i' = res_i + 1

\* extract_id_any or extract_name_any raises on the item
item_raises(item) ==
    With(extract_id_any(item), LAMBDA rid :
        IF rid.t = "raise" THEN TRUE
        ELSE IF rid.t = "none" \/ rid.v = <<>> THEN FALSE
        ELSE extract_name_any(item, rid.v).t = "raise")

\* lines 398-409: an item whose identifier cannot be resolved
ItemNoId ==
    /\ pc = "items"
    /\ ~item_raises(items[item_i])
    /\ ~Truthy(extract_id_any(items[item_i]))
    /\ DumpItem
    /\ blocks' = Append(blocks, no_id_line(tag, items[item_i]))
    /\ NextItem
    /\ UNCHANGED <<arg, ret, resources, dump_path, tag, tf_type, items, dumper, out, calls,
                   first_out>>

\* lines 398-415: an item that yields an import block
ItemBlock ==
    /\ pc = "items"
    /\ ~item_raises(items[item_i])
    /\ Truthy(extract_id_any(items[item_i]))
    /\ DumpItem
    /\ blocks' = Append(blocks,
                        import_block(extract_id_any(items[item_i]).v, tf_type,
                                     extract_name_any(items[item_i],
                                                      extract_id_any(items[item_i]).v).v))
    /\ NextItem
    /\ UNCHANGED <<arg, ret, resources, dump_path, tag, tf_type, items, dumper, out, calls,
                   first_out>>

\* an exception raised at the current group or item
raises_here ==
    IF pc = "items" THEN item_raises(items[item_i])
    ELSE IF tag_raises(resources[res_i]) THEN TRUE
    ELSE IF tf_type_of(detect_tag(resources[res_i])) = <<>> THEN FALSE
    ELSE iter_items_from_resource(resources[res_i]).exc

\* An exception leaves compose_import_hcl: nothing in the function catches it, so
\* the call ends there, the statements after the loop not run.  At an item the
\* sample dump of the item has run before.
RaiseOut ==
    /\ pc \in {"groups", "items"}
    /\ pc = "groups" => res_i <= Len(resources)
    /\ raises_here
    /\ IF pc = "items" THEN DumpItem ELSE UNCHANGED <<sink, dumped>>
    /\ pc' = "raised"
    /\ UNCHANGED <<arg, ret, resources, dump_path, res_i, tag, tf_type, items, item_i,
                   blocks, dumper, out, calls, first_out>>

\* lines 417-421: after the loop the sink is closed and the text returned
Finish ==
    /\ pc = "groups"
    /\ res_i > Len(resources)
    /\ dumper' = IF dumper = "open" THEN "closed" ELSE dumper
    /\ out' = join_blocks(blocks)
    /\ pc' = "done"
    /\ UNCHANGED <<arg, ret, resources, dump_path, res_i, tag, tf_type, items, item_i,
                   blocks, dumped, sink, calls, first_out>>

\* the caller compiles the same resource objects a second time
Recompile ==
    /\ pc = "done"
    /\ calls = 1
    /\ first_out' = out
    /\ calls' = 2
    /\ out' = <<>>
    /\ pc' = "start"
    /\ UNCHANGED <<arg, ret, resources, dump_path, res_i, tag, tf_type, items, item_i,
                   blocks, dumper, dumped, sink>>

Next ==
    \/ Begin
    \/ GroupUnsupported
    \/ GroupEmpty
    \/ GroupEnter
    \/ ItemNoId
    \/ ItemBlock
    \/ RaiseOut
    \/ Finish
    \/ Recompile

(***************************************************************************)
(* The inputs of a compile: resource groups over a few items and tags.     *)
(***************************************************************************)
MY_SCRIPT == <<"M", "y", " ", "S", "c", "r", "i", "p", "t", "!">>
UNKNOWN_TYPE == <<"U", "N", "K", "N", "O", "W", "N", "_", "T", "Y", "P", "E">>

\* a plain record with an id and a name
GoodItem == D(<<KV("id", S(<<"1">>)), KV("name", S(MY_SCRIPT))>>)
\* a record without any identifier
NoIdItem == D(<<KV("name", S(<<"x">>))>>)
\* a wrapper whose data property raises
RaisingItem == O(9, <<KV("data", Raise)>>)
\* a wrapper whose fields hold an object json.dumps rejects
OpaqueItem == O(8, <<KV("id", I(5)), KV("client", O(7, <<>>))>>)

RESOURCE_TAG_POLICY ==
    <<"R", "e", "s", "o", "u", "r", "c", "e", "T", "a", "g", ".", "P", "O", "L", "I", "C", "Y">>

\* A resource group: its tag in resource_type and its items in the attribute data:
\* a list (kind "list"), a one-shot iterator (kind "iter") or a method that
\* returns a new iterator over the items at each call (kind "gen").
Resource(tg, kind, its) ==
    O(1, <<KV("resource_type", S(tg)),
           KV("data", CASE kind = "list" -> L(its)
                        [] kind = "iter" -> Iter(its, FALSE)
                        [] kind = "gen" -> Meth(Iter(its, FALSE)))>>)

\* a group without resource_type, its tag in provider_tag and its items behind get_all
ProviderResource(tg, its) ==
    O(1, <<KV("provider_tag", S(tg)), KV("get_all", Meth(L(its)))>>)

ItemLists ==
    {<<>>, <<GoodItem>>, <<NoIdItem>>, <<RaisingItem>>, <<GoodItem, NoIdItem>>,
     <<NoIdItem, GoodItem>>}

Groups ==
    {Resource(K_SCRIPT, "list", its) : its \in ItemLists}
    \cup {Resource(K_CATEGORY, "list", its) : its \in {<<>>, <<GoodItem>>}}
    \cup {Resource(UNKNOWN_TYPE, "list", its) : its \in {<<>>, <<GoodItem, NoIdItem>>}}
    \cup {Resource(K_SCRIPT, "iter", <<GoodItem>>), Resource(K_SCRIPT, "gen", <<GoodItem>>),
          ProviderResource(RESOURCE_TAG_POLICY, <<OpaqueItem>>)}

Inputs == UNION {[1..n -> Groups] : n \in 0..MaxGroups}

\* the state at the call of compose_import_hcl(res, dump_path)
AtCall(res, path) ==
    /\ resources = res
    /\ dump_path = path
    /\ pc = "start"
    /\ calls = 1
    /\ res_i = 1
    /\ item_i = 1
    /\ tag = <<>>
    /\ tf_type = <<>>
    /\ items = <<>>
    /\ blocks = <<>>
    /\ dumper = "none"
    /\ dumped = 0
    /\ sink = 0
    /\ out = <<>>
    /\ first_out = <<>>
    /\ arg = NoneV
    /\ ret = NoneV

Init == \E res \in Inputs, path \in BOOLEAN : AtCall(res, path)

Spec == Init /\ [][Next]_vars

(***************************************************************************)
(* Reference definitions the properties of a compile are stated with.      *)
(***************************************************************************)
\* the resource as it was handed in: its one-shot iterator not yet used
Unused(res) ==
    O(res.v.oid,
      [i \in DOMAIN res.v.attrs |->
          IF res.v.attrs[i].val.t = "iter"
          THEN KV(res.v.attrs[i].k, Iter(res.v.attrs[i].val.v.vs, FALSE))
          ELSE res.v.attrs[i]])

\* the groups as the running call found them at its start
GroupsAtStart ==
    IF calls = 1 THEN [i \in DOMAIN resources |-> Unused(resources[i])] ELSE resources

\* the group's tag matches no key of the table
IsUnsupported(res) == tf_type_of(detect_tag(res)) = <<>>

\* the one entry an item of a classified group yields; none (the empty text) for
\* an item at which the call raises, from which no call returns
ItemEntry(tg, ty, item) ==
    IF item_raises(item) THEN <<>>
    ELSE IF Truthy(extract_id_any(item))
    THEN import_block(extract_id_any(item).v, ty,
                      extract_name_any(item, extract_id_any(item).v).v)
    ELSE no_id_line(tg, item)

\* the entries one group yields by itself
GroupEntries(res) ==
    LET tg == detect_tag(res)
        ty == tf_type_of(tg)
        its == iter_items_from_resource(res).items
    IN  IF ty = <<>> THEN <<unsupported_line(tg)>>
        ELSE IF its = <<>> THEN <<no_items_line(tg)>>
        ELSE [i \in DOMAIN its |-> ItemEntry(tg, ty, its[i])]

\* the entries of the groups rs, group after group
ExpectedBlocks(rs) == Concat([i \in DOMAIN rs |-> GroupEntries(rs[i])])

\* entries each followed by one blank line, the last by the end of its line only
ExpectedText(es) ==
    Concat([i \in DOMAIN es |-> es[i] \o (IF i < Len(es) THEN <<"\n", "\n">> ELSE <<"\n">>)])

IsImportBlock(e) == Len(e) >= Len(BLOCK_HEAD) /\ SubSeq(e, 1, Len(BLOCK_HEAD)) = BLOCK_HEAD
IsDiagnostic(e) == e # <<>> /\ e[1] = "#"

\* no group holds its items in a one-shot iterator
Reiterable(rs) ==
    \A i \in DOMAIN rs : \A a \in DOMAIN rs[i].v.attrs : rs[i].v.attrs[a].val.t # "iter"

\* [SCRIPT with the item {id: "1", name: "My Script!"}, CATEGORY with no items]
ExampleGroups == <<Resource(K_SCRIPT, "list", <<GoodItem>>), Resource(K_CATEGORY, "list", <<>>)>>

EXAMPLE_TEXT_WITH_UNDERSCORE ==
    <<"i", "m", "p", "o", "r", "t", " ", "{", "\n", " ", " ", "i", "d", " ", "=", " ",
      "\"", "1", "\"", "\n", " ", " ", "t", "o", " ", "=", " ", "j", "a", "m", "f", "p",
      "r", "o", "_", "s", "c", "r", "i", "p", "t", ".", "m", "y", "_", "s", "c", "r", "i",
      "p", "t", "_", "\n", "}", "\n", "\n", "#", " ", "N", "o", " ", "i", "t", "e", "m",
      "s", " ", "f", "o", "u", "n", "d", " ", "f", "o", "r", " ", "C", "A", "T", "E", "G",
      "O", "R", "Y", "\n">>

EXAMPLE_TEXT ==
    <<"i", "m", "p", "o", "r", "t", " ", "{", "\n", " ", " ", "i", "d", " ", "=", " ",
      "\"", "1", "\"", "\n", " ", " ", "t", "o", " ", "=", " ", "j", "a", "m", "f", "p",
      "r", "o", "_", "s", "c", "r", "i", "p", "t", ".", "m", "y", "_", "s", "c", "r", "i",
      "p", "t", "\n", "}", "\n", "\n", "#", " ", "N", "o", " ", "i", "t", "e", "m", "s",
      " ", "f", "o", "u", "n", "d", " ", "f", "o", "r", " ", "C", "A", "T", "E", "G", "O",
      "R", "Y", "\n">>

(***************************************************************************)
(* Properties of a compile (specification Spec).                           *)
(***************************************************************************)
\* C2, as claimed: the example groups compile to one import block whose target
\* is jamfpro_script.my_script_ (trailing underscore kept), a blank line, the
\* line "# No items found for CATEGORY" and one newline.
C2_ExampleKeepsUnderscore ==
    (pc = "done" /\ resources = ExampleGroups) => out = EXAMPLE_TEXT_WITH_UNDERSCORE

\* C2, amended: the example groups compile to one import block with id "1" and
\* target jamfpro_script.my_script (sanitize_name strips the underscore the "!"
\* became), a blank line, "# No items found for CATEGORY" and one newline.
C2_ExampleOutput ==
    (pc = "done" /\ resources = ExampleGroups) => out = EXAMPLE_TEXT

C2_Witness == pc = "done" /\ resources = ExampleGroups /\ Len(blocks) = 2

\* C5: a group whose tag matches no table key contributes exactly one diagnostic
\* line and no import block, whatever its items, and the groups before and
\* after it contribute what they yield by themselves.
C5_UnsupportedGroupSkipped ==
    pc = "done" =>
        \A i \in DOMAIN resources :
            IsUnsupported(resources[i]) =>
                /\ blocks = ExpectedBlocks(SubSeq(GroupsAtStart, 1, i - 1))
                            \o <<unsupported_line(detect_tag(resources[i]))>>
                            \o ExpectedBlocks(SubSeq(GroupsAtStart, i + 1, Len(resources)))
                /\ \A c \in DOMAIN unsupported_line(detect_tag(resources[i])) :
                       unsupported_line(detect_tag(resources[i]))[c] # "\n"

C5_Witness ==
    /\ pc = "done"
    /\ Len(resources) = 2
    /\ IsUnsupported(resources[1])
    /\ iter_items_from_resource(resources[1]).items # <<>>
    /\ Len(blocks) = 2
    /\ IsDiagnostic(blocks[1])
    /\ IsImportBlock(blocks[2])

\* C8, as claimed: with a sink path given, the sink is closed on every exit of
\* the call: the return, and an exception raised at a group or an item.
C8_SinkClosedOnEveryExit ==
    (dump_path /\ pc \in {"done", "raised"}) => dumper = "closed"

\* C9: the text returned is the entries of the groups in the order given (one
\* diagnostic for an unsupported or empty group, else one entry per item in item
\* order: an import block if the identifier resolves, a diagnostic if not),
\* consecutive entries one blank line apart, one newline at the end, and
\* nothing at all when there is no entry.
C9_OrderedConcatenation ==
    pc = "done" =>
        /\ blocks = ExpectedBlocks(GroupsAtStart)
        /\ out = ExpectedText(blocks)
        /\ (blocks = <<>> => out = <<>>)

C9_Witness ==
    /\ pc = "done"
    /\ Len(resources) = 2
    /\ Len(blocks) = 3
    /\ IsDiagnostic(blocks[1])
    /\ IsImportBlock(blocks[2])
    /\ IsDiagnostic(blocks[3])

\* C10, as claimed: a second compile of the same group objects returns the text
\* the first returned, whatever accessor reaches the items, one-shot iterables
\* included.
C10_SecondCompileSame ==
    (pc = "done" /\ calls = 2) => out = first_out

\* C10, amended: a second compile of the same group objects returns the text the
\* first returned when no group holds its items in a one-shot iterator.
C10_SecondCompileSameIfReiterable ==
    (pc = "done" /\ calls = 2 /\ Reiterable(resources)) => out = first_out

C10_Witness ==
    /\ pc = "done"
    /\ calls = 2
    /\ Reiterable(resources)
    /\ \E i \in DOMAIN resources : GetAttr(resources[i], "data").t = "meth"
    /\ Len(blocks) >= 2
    /\ \E k \in DOMAIN blocks : IsImportBlock(blocks[k])

(***************************************************************************)
(* sanitize_name on its own (specification SpecSan).                       *)
(***************************************************************************)
\* no compile is running
NoCompile ==
    /\ resources = <<>>
    /\ dump_path = FALSE
    /\ calls = 0
    /\ res_i = 1
    /\ item_i = 1
    /\ tag = <<>>
    /\ tf_type = <<>>
    /\ items = <<>>
    /\ blocks = <<>>
    /\ dumper = "none"
    /\ dumped = 0
    /\ sink = 0
    /\ out = <<>>
    /\ first_out = <<>>

SanAlphabet == {"a", "Z", "7", "_", "!", " "}
SanInputs ==
    {S(cs) : cs \in UNION {[1..n -> SanAlphabet] : n \in 0..MaxLen}}
    \cup {NoneV, I(0), I(42), B(TRUE)}

InitSan == arg \in SanInputs /\ ret = NoneV /\ pc = "call" /\ NoCompile

CallSanitize ==
    /\ pc = "call"
    /\ ret' = S(sanitize_name(arg))
    /\ pc' = "returned"
    /\ UNCHANGED <<arg, compile_vars>>

NextSan == CallSanitize

SpecSan == InitSan /\ [][NextSan]_vars

\* ^[a-z_][a-z0-9_]*$
MatchesIdentifier(cs) ==
    /\ Len(cs) >= 1
    /\ cs[1] \in LowerSet \cup {"_"}
    /\ \A i \in DOMAIN cs : cs[i] \in LowerSet \cup DigitSet \cup {"_"}

\* C1: for every input (the empty string, strings without any letter or digit
\* and strings that start with a digit included) sanitize_name returns a
\* non-empty string that matches ^[a-z_][a-z0-9_]*$.
C1_SanitizeWellFormed ==
    pc = "returned" => (ret.t = "str" /\ ret.v # <<>> /\ MatchesIdentifier(ret.v))

C1_Witness ==
    /\ pc = "returned"
    /\ arg = S(<<" ", "7", "!">>)
    /\ ret = S(<<"r", "_", "7">>)

(***************************************************************************)
(* The classification of a tag on its own (specification SpecTag).         *)
(***************************************************************************)
TagFragments ==
    {K_SCRIPT, K_POLICY, K_CATEGORY, K_STATIC_COMPUTER_GROUP, K_COMPUTER_EXTENSION_ATTRIBUTE,
     UNKNOWN_TYPE, <<"_">>, <<"R", "e", "s", "o", "u", "r", "c", "e", "T", "a", "g", ".">>}

RawTags == {Concat(fs) : fs \in UNION {[1..n -> TagFragments] : n \in 0..MaxFrags}}

TagInputs ==
    {Resource(tg, "list", <<>>) : tg \in RawTags}
    \cup {ProviderResource(tg, <<>>) : tg \in {K_SCRIPT, K_POLICY \o K_SCRIPT, UNKNOWN_TYPE}}
    \cup {O(1, <<>>)}

InitTag == arg \in TagInputs /\ ret = NoneV /\ pc = "call" /\ NoCompile

\* lines 382-387 of compose_import_hcl on the group arg
CallClassify ==
    /\ pc = "call"
    /\ ret' = [tag |-> detect_tag(arg), tf_type |-> tf_type_of(detect_tag(arg))]
    /\ pc' = "returned"
    /\ UNCHANGED <<arg, compile_vars>>

NextTag == CallClassify

SpecTag == InitTag /\ [][NextTag]_vars

\* no table key occurs in s before position p
NoKeyBefore(s, p) ==
    \A q \in 1..(p - 1) : \A j \in DOMAIN TERRAFORM_TYPE_MAP :
        ~MatchAt(s, q, TERRAFORM_TYPE_MAP[j].key)

\* C4, as claimed: the type is that of the first key of the table, in table
\* order, that the raw tag string contains, wherever the keys occur in it.
C4_FirstTableKeyInRawTag ==
    pc = "returned" =>
        LET s == tag_str(arg)
            hits == {i \in DOMAIN TERRAFORM_TYPE_MAP : Contains(s, TERRAFORM_TYPE_MAP[i].key)}
        IN  IF hits = {} THEN ret.tf_type = <<>>
            ELSE ret.tf_type = TERRAFORM_TYPE_MAP[CHOOSE i \in hits : \A j \in hits : i <= j].val

\* C4, amended: the type is that of the table key that occurs leftmost in the raw
\* tag string (detect_tag reduces the tag to it before the table is consulted),
\* table order deciding only among keys that start at the same place; a raw tag
\* that contains no key yields none.
C4_LeftmostKeyInRawTag ==
    pc = "returned" =>
        LET s == tag_str(arg) IN
        IF \A i \in DOMAIN TERRAFORM_TYPE_MAP : ~Contains(s, TERRAFORM_TYPE_MAP[i].key)
        THEN ret.tf_type = <<>> /\ ret.tag = s
        ELSE \E i \in DOMAIN TERRAFORM_TYPE_MAP : \E p \in 1..Len(s) :
                /\ MatchAt(s, p, TERRAFORM_TYPE_MAP[i].key)
                /\ NoKeyBefore(s, p)
                /\ \A j \in 1..(i - 1) : ~MatchAt(s, p, TERRAFORM_TYPE_MAP[j].key)
                /\ ret.tf_type = TERRAFORM_TYPE_MAP[i].val

C4_Witness ==
    /\ pc = "returned"
    /\ tag_str(arg) = K_POLICY \o <<"_">> \o K_SCRIPT
    /\ ret.tf_type = T_POLICY

(***************************************************************************)
(* The shape prober and the identifier extractor on their own              *)
(* (specification SpecProbe).                                              *)
(***************************************************************************)
\* what an identifier field holds
IdValues ==
    {NoneV, S(<<>>), S(<<"7">>), B(FALSE), L(<<>>), D(<<>>)} \cup {I(n) : n \in 0..MaxInt}

\* records whose identifier fields sit where one step of the extractor looks
IdItems ==
    UNION {{D(<<KV("jpro_id", v1), KV("id", v2)>>),
            D(<<KV("uid", v1), KV("data", D(<<KV("id", v2)>>))>>),
            D(<<KV("general", D(<<KV("id", v1), KV("uuid", v2)>>))>>),
            O(2, <<KV("id", Prop(v1)), KV("uuid", Prop(v2))>>),
            O(3, <<KV("get", Getter(<<KV("jpro_id", v1), KV("id", v2)>>))>>),
            O(4, <<KV("__getitem__", Getter(<<KV("jpro_id", v1), KV("id", v2)>>))>>)}
           : v1 \in IdValues, v2 \in IdValues}

\* wrappers whose attributes make one strategy of the prober succeed or fail
PROBE_NAMES == <<"keys", "get", "data", "to_dict", "json", "inner">>
ProbeEntries ==
    {Raise, Meth(Raise), Meth(D(<<KV("id", S(<<"7">>))>>)), Meth(S(JSON_ID7)),
     Meth(KeyList(<<"id">>)), Getter(<<KV("id", I(0))>>), D(<<KV("id", I(0))>>),
     O(7, <<KV("raw", Raise)>>)}

WrapperOf(f) ==
    LET ns == SelectSeq(PROBE_NAMES, LAMBDA n : n \in DOMAIN f)
    IN  O(5, [i \in DOMAIN ns |-> KV(ns[i], f[ns[i]])])

StrategyItems ==
    {WrapperOf(f) : f \in UNION {[ns -> ProbeEntries] :
                        ns \in {x \in SUBSET Range(PROBE_NAMES) : Cardinality(x) <= MaxAttrs}}}

ProbeItems == IdItems \cup StrategyItems

InitProbe == arg \in ProbeItems /\ ret = NoneV /\ pc = "call" /\ NoCompile

CallProbe ==
    /\ pc = "call"
    /\ ret' = obj_to_dict_deep(arg, MaxDepth)
    /\ pc' = "probed"
    /\ UNCHANGED <<arg, compile_vars>>

CallExtractId ==
    /\ pc = "call"
    /\ ret' = [found |-> find_id(arg), id |-> extract_id_any(arg)]
    /\ pc' = "extracted"
    /\ UNCHANGED <<arg, compile_vars>>

NextProbe == CallProbe \/ CallExtractId

SpecProbe == InitProbe /\ [][NextProbe]_vars

FALLBACK_STEPS == {"nested", "attr", "get", "index"}

\* C3, as claimed: whichever step finds the identifier, the value it settles on is
\* never a falsy one (None, "", 0, False, an empty container).
C3_FalsyAbsentAtEveryStep ==
    (pc = "extracted" /\ ret.found.step \in FALLBACK_STEPS \cup {"top"})
        => Truthy(ret.found.raw)

\* C3, amended: the top-level scan passes over None and the empty string only,
\* and returns the text of the first other value, a falsy one included (0 gives
\* "0"); each later step (nested sections, attributes, get(), indexing) passes
\* over every falsy value; the result is none when no step finds a value.
C3_FalsyAbsentAfterTopLevel ==
    pc = "extracted" =>
        LET f == ret.found IN
        /\ f.step = "top" => (f.raw.t # "none" /\ f.raw # S(<<>>))
        /\ f.step \in FALLBACK_STEPS => Truthy(f.raw)
        /\ f.step \in FALLBACK_STEPS \cup {"top"} => ret.id = S(str(f.raw))
        /\ f.step = "none" => ret.id = NoneV
        /\ (arg.t = "dict" /\ \E i \in DOMAIN ID_KEYS :
                HasKey(arg.v, ID_KEYS[i]) /\ Lookup(arg.v, ID_KEYS[i]).t # "none"
                /\ Lookup(arg.v, ID_KEYS[i]) # S(<<>>))
            => f.step = "top"

C3_Witness ==
    /\ pc = "extracted"
    /\ arg = D(<<KV("jpro_id", S(<<>>)), KV("id", I(0))>>)
    /\ ret.found = Found("top", I(0))
    /\ ret.id = S(<<"0">>)

\* C7: no exception leaves obj_to_dict_deep, whichever strategy fails.
C7_NoExceptionEscapes == pc = "probed" => ~ret.exc

(***************************************************************************)
(* Compiles of many items with a sample sink (specification SpecCap).      *)
(***************************************************************************)
CapSizes == {0, 15, 35, SampleItems}
CapItems == {GoodItem, OpaqueItem, NoIdItem, RaisingItem}
CapTags == {K_SCRIPT, UNKNOWN_TYPE}

RECURSIVE SumSizes(_, _)
SumSizes(f, n) == IF n = 0 THEN 0 ELSE f[n][2] + SumSizes(f, n - 1)

\* up to MaxGroups groups of one kind of item, SampleItems items at most in all
CapInputs ==
    UNION {{[i \in 1..n |-> Resource(f[i][1], "list", [k \in 1..f[i][2] |-> item])]
            : f \in {g \in [1..n -> CapTags \X CapSizes] : SumSizes(g, n) <= SampleItems}}
           : n \in 0..MaxGroups, item \in CapItems}

InitCap == \E res \in CapInputs : AtCall(res, TRUE)

SpecCap == InitCap /\ [][Next]_vars

\* the items of the group
ItemsOf(res) == iter_items_from_resource(res).items

RECURSIVE TotalItems(_)
TotalItems(rs) == IF rs = <<>> THEN 0 ELSE Len(ItemsOf(rs[1])) + TotalItems(Tail(rs))

\* the items of classified groups whose record is probed and serialized without error
RECURSIVE Sampleable(_)
Sampleable(rs) ==
    IF rs = <<>> THEN 0
    ELSE (IF IsUnsupported(rs[1]) THEN 0
          ELSE Cardinality({k \in DOMAIN ItemsOf(rs[1]) : dump_succeeds(ItemsOf(rs[1])[k])}))
         + Sampleable(Tail(rs))

Min(a, b) == IF a <= b THEN a ELSE b

\* C6, as claimed: a compile of 50 items with a sink writes exactly 20 sample
\* lines, however the items are spread over the groups.
C6_FiftyItemsTwentyLines ==
    (pc = "done" /\ dump_path /\ TotalItems(resources) = SampleItems) => sink = 20

\* C6, amended: the counter is one for the whole call and no call writes more
\* than 20 sample lines; a call that returns has written min(20, n) lines, n the
\* number of items of classified groups whose record is probed and serialized
\* without error (items of unsupported groups are never sampled).
C6_SampleCapAcrossGroups ==
    /\ sink <= 20
    /\ dumper # "none" => dumped = sink
    /\ (pc = "done" /\ dump_path) => sink = Min(20, Sampleable(resources))

C6_Witness ==
    /\ pc = "done"
    /\ dump_path
    /\ Len(resources) = 2
    /\ Len(ItemsOf(resources[1])) = 15
    /\ Len(ItemsOf(resources[2])) = 35
    /\ Len(blocks) = SampleItems
    /\ sink = 20

====
